---- MODULE Spec2Model ----
(***************************************************************************)
(* Model of the Advocate repository: the campaign-text parser of           *)
(* CampaignIdeaGenerator (src/src/agents/marketing/campaign_generator.py)  *)
(* and the two-tier get-or-generate cache of the Streamlit app             *)
(* (src/app.py) on top of ChromaStore                                      *)
(* (src/models/vectorstore/chroma_store.py) and the research / marketing   *)
(* agents.                                                                 *)
(*                                                                         *)
(* Text representation.  A line of text is a sequence of tokens; the text  *)
(* of the line is the concatenation of its tokens.  A token is either one  *)
(* of the characters the parser looks at (" ", ":", ".", "-", a digit) or  *)
(* a maximal run of letters (a word).  Every string method the parser      *)
(* uses (strip, lstrip, split, startswith, lower, replace) is defined on   *)
(* token sequences below exactly as Python defines it on characters; the   *)
(* keys and values stored in a record are joined back to strings.          *)
(***************************************************************************)
EXTENDS Integers, Sequences, FiniteSets, TLC

(***************************************************************************)
(* Bounds of the model.                                                    *)
(***************************************************************************)
MaxLines == 4

MaxCapLines == 11

(***************************************************************************)
(* Python string methods on token sequences.                               *)
(***************************************************************************)
Digits == {"1", "2", "3", "4", "5", "6", "7", "8", "9"}

\* str.lower() on one token
LowerTok(t) ==
  CASE t = "Campaign" -> "campaign"
    [] t = "Launch" -> "launch"
    [] t = "Day" -> "day"
    [] t = "Core" -> "core"
    [] t = "Message" -> "message"
    [] t = "Save" -> "save"
    [] t = "Visual" -> "visual"
    [] t = "Theme" -> "theme"
    [] t = "Description" -> "description"
    [] t = "Color" -> "color"
    [] t = "Palette" -> "palette"
    [] t = "Mood" -> "mood"
    [] t = "Tone" -> "tone"
    [] t = "Key" -> "key"
    [] t = "Emotional" -> "emotional"
    [] t = "Appeal" -> "appeal"
    [] t = "Primary" -> "primary"
    [] t = "Emotion" -> "emotion"
    [] t = "Social" -> "social"
    [] t = "Media" -> "media"
    [] t = "Focus" -> "focus"
    [] t = "Platforms" -> "platforms"
    [] t = "Budget" -> "budget"
    [] t = "A" -> "a"
    [] t = "B" -> "b"
    [] OTHER -> t

\* str.lower()
Lower(s) == [i \in 1..Len(s) |-> LowerTok(s[i])]

\* str.replace(' ', '_')
ReplaceSpaces(s) == [i \in 1..Len(s) |-> IF s[i] = " " THEN "_" ELSE s[i]]

\* str.lstrip(chars): drop the leading tokens that are in chars
RECURSIVE LStripChars(_, _)
LStripChars(s, chars) ==
  IF s # <<>> /\ Head(s) \in chars THEN LStripChars(Tail(s), chars) ELSE s

\* str.rstrip(chars)
RECURSIVE RStripChars(_, _)
RStripChars(s, chars) ==
  IF s # <<>> /\ s[Len(s)] \in chars
    THEN RStripChars(SubSeq(s, 1, Len(s) - 1), chars)
    ELSE s

\* str.strip(): whitespace on both ends
Strip(s) == RStripChars(LStripChars(s, {" "}), {" "})

\* sep in s
Contains(s, sep) == \E i \in 1..Len(s) : s[i] = sep

\* index of the first sep in s (0 when absent)
FirstIndex(s, sep) ==
  IF Contains(s, sep)
    THEN CHOOSE i \in 1..Len(s) : s[i] = sep /\ \A j \in 1..(i - 1) : s[j] # sep
    ELSE 0

\* s.split(sep, 1)[0]
SplitOnceHead(s, sep) ==
  IF Contains(s, sep) THEN SubSeq(s, 1, FirstIndex(s, sep) - 1) ELSE s

\* s.split(sep, 1)[1]   (only evaluated when sep in s)
SplitOnceTail(s, sep) == SubSeq(s, FirstIndex(s, sep) + 1, Len(s))

\* s.split(sep): the list of all pieces
RECURSIVE SplitAll(_, _)
SplitAll(s, sep) ==
  IF Contains(s, sep)
    THEN <<SplitOnceHead(s, sep)>> \o SplitAll(SplitOnceTail(s, sep), sep)
    ELSE <<s>>

\* the text of a token sequence
RECURSIVE Join(_)
Join(s) == IF s = <<>> THEN "" ELSE Head(s) \o Join(Tail(s))

\* line.startswith('Campaign')
StartsWithCampaign(line) == line # <<>> /\ Head(line) = "Campaign"

\* any(line.startswith(str(i)) for i in range(1, 10))
StartsWithDigit(line) == line # <<>> /\ Head(line) \in Digits

\* line.startswith('-')
StartsWithDash(line) == line # <<>> /\ Head(line) = "-"

\* DeriveKey without the replacement of spaces
DeriveKeyKeepSpaces(s) == Join(Lower(Strip(s)))

\* key derivation shared by sections, sub-keys and key:value lines:
\* .strip().lower().replace(' ', '_')
DeriveKey(s) == Join(ReplaceSpaces(Lower(Strip(s))))

(***************************************************************************)
(* Parser state of _process_campaign_response.  Python dictionaries are    *)
(* objects: subsection_data is a reference into heap, and a record value   *)
(* of kind "dict" holds such a reference, so that two keys bound to the    *)
(* same dictionary object see each other's later insertions.  A Python    *)
(* dictionary keeps its keys in the order of their first insertion: order  *)
(* holds, for every dictionary of heap, its keys in that order.            *)
(***************************************************************************)
None == "None"

Scalar(text) == [kind |-> "scalar", text |-> text, ref |-> 0]

DictRef(r) == [kind |-> "dict", text |-> "", ref |-> r]

\* d[k] = v on a Python dict modelled as a function
DictSet(d, k, v) == (k :> v) @@ d

\* the keys of a dict, in insertion order, after d[k] = v
KeysAfterSet(keys, d, k) == IF k \in DOMAIN d THEN keys ELSE Append(keys, k)

\* truth value of a dict
Truthy(d) == DOMAIN d # {}

\* campaign_generator.py lines 125-128
InitParser ==
  [campaigns |-> <<>>,
   current_campaign |-> <<>>,
   current_section |-> None,
   subsection_data |-> 1,
   heap |-> << <<>> >>,
   order |-> << <<>> >>,
   raised |-> FALSE]

\* SealCampaign putting the sealed record in front of the earlier ones
SealCampaignPrepend(st) ==
  LET cc == IF Truthy(st.heap[st.subsection_data])
              THEN DictSet(st.current_campaign, st.current_section,
                           DictRef(st.subsection_data))
              ELSE st.current_campaign
  IN <<cc>> \o st.campaigns

\* lines 140-142 and 172-174: flush the open subsection, then seal
SealCampaign(st) ==
  LET cc == IF Truthy(st.heap[st.subsection_data])
              THEN DictSet(st.current_campaign, st.current_section,
                           DictRef(st.subsection_data))
              ELSE st.current_campaign
  IN Append(st.campaigns, cc)

\* line 143: the campaign_name of a campaign-start line
CampaignName(line) ==
  IF Contains(line, ":")
    THEN Join(Strip(SplitOnceTail(line, ":")))
    ELSE Join(line)

\* lines 138-145
CampaignStart(st, line) ==
  [st EXCEPT
        !.campaigns = IF Truthy(st.current_campaign)
                        THEN SealCampaign(st) ELSE st.campaigns,
        !.current_campaign = ("campaign_name" :> Scalar(CampaignName(line))),
        !.current_section = None,
        !.subsection_data = Len(st.heap) + 1,
        !.heap = Append(st.heap, <<>>),
        !.order = Append(st.order, <<>>)]

\* lines 148-155; split('.')[1] raises IndexError when the text before the
\* first colon holds no period, and the except clause of line 178 ends the
\* parse with an empty result
SectionHeader(st, line) ==
  LET flushed == IF st.current_section \notin {None, ""}
                    /\ Truthy(st.heap[st.subsection_data])
                   THEN DictSet(st.current_campaign, st.current_section,
                                DictRef(st.subsection_data))
                   ELSE st.current_campaign
      pieces == SplitAll(SplitOnceHead(line, ":"), ".")
      section == DeriveKey(pieces[2])
  IN IF Len(pieces) < 2
       THEN [st EXCEPT !.raised = TRUE]
       ELSE IF Contains(line, ":")
         THEN [st EXCEPT
                 !.current_campaign =
                    DictSet(flushed, section,
                            Scalar(Join(Strip(SplitOnceTail(line, ":"))))),
                 !.current_section = section]
         ELSE [st EXCEPT
                 !.current_campaign = flushed,
                 !.current_section = section,
                 !.subsection_data = Len(st.heap) + 1,
                 !.heap = Append(st.heap, <<>>),
                 !.order = Append(st.order, <<>>)]

\* lines 158-161
SubsectionLine(st, line) ==
  LET key == DeriveKey(SplitOnceHead(LStripChars(line, {"-", " "}), ":"))
      value == IF Contains(line, ":")
                 THEN Join(Strip(SplitOnceTail(line, ":")))
                 ELSE Join(Strip(LStripChars(line, {"-", " "})))
  IN [st EXCEPT
        !.heap[st.subsection_data] = DictSet(@, key, value),
        !.order[st.subsection_data] =
           KeysAfterSet(@, st.heap[st.subsection_data], key)]

\* KeyValueLine writing the pair into the sealed records as well
KeyValueLineIntoSealed(st, line) ==
  [st EXCEPT
     !.current_campaign =
        DictSet(@, DeriveKey(SplitOnceHead(line, ":")),
                Scalar(Join(Strip(SplitOnceTail(line, ":"))))),
     !.campaigns =
        [i \in 1..Len(st.campaigns) |->
           DictSet(st.campaigns[i], DeriveKey(SplitOnceHead(line, ":")),
                   Scalar(Join(Strip(SplitOnceTail(line, ":")))))]]

\* lines 164-168
KeyValueLine(st, line) ==
  [st EXCEPT
     !.current_campaign =
        DictSet(@, DeriveKey(SplitOnceHead(line, ":")),
                Scalar(Join(Strip(SplitOnceTail(line, ":")))))]

\* the branch of lines 138-168 a stripped, non-blank line takes
LineClass(st, line) ==
  IF StartsWithCampaign(line) THEN "campaign_start"
  ELSE IF StartsWithDigit(line) THEN "section_header"
  ELSE IF StartsWithDash(line) /\ st.current_section \notin {None, ""}
    THEN "subsection_line"
  ELSE IF Contains(line, ":") /\ ~StartsWithDash(line) THEN "key_value"
  ELSE "ignored"

\* one iteration of the loop of lines 132-168
ProcessLine(st, rawline) ==
  LET line == Strip(rawline)
      class == LineClass(st, line)
  IN IF st.raised \/ line = <<>> THEN st
     ELSE CASE class = "campaign_start" -> CampaignStart(st, line)
            [] class = "section_header" -> SectionHeader(st, line)
            [] class = "subsection_line" -> SubsectionLine(st, line)
            [] class = "key_value" -> KeyValueLine(st, line)
            [] OTHER -> st

\* lines 171-174: the last campaign
FinishParser(st) ==
  IF st.raised \/ ~Truthy(st.current_campaign)
    THEN st
    ELSE [st EXCEPT !.campaigns = SealCampaign(st)]

\* ClampNumCampaigns without the lower clamp
ClampNumCampaignsNoFloor(c) == IF c < 10 THEN c ELSE 10

\* campaign_generator.py line 23
ClampNumCampaigns(c) ==
  LET lo == IF c < 10 THEN c ELSE 10
  IN IF lo > 1 THEN lo ELSE 1

\* Python slice seq[:n]
SliceTo(seq, n) ==
  IF n >= 0
    THEN SubSeq(seq, 1, IF n < Len(seq) THEN n ELSE Len(seq))
    ELSE SubSeq(seq, 1, IF Len(seq) + n > 0 THEN Len(seq) + n ELSE 0)

\* a record with every dictionary reference replaced by the dictionary and
\* its keys in insertion order
ResolveRecord(rec, heap, order) ==
  [k \in DOMAIN rec |->
     IF rec[k].kind = "dict"
       THEN [kind |-> "dict", text |-> "", map |-> heap[rec[k].ref],
             keys |-> order[rec[k].ref]]
       ELSE [kind |-> "scalar", text |-> rec[k].text, map |-> <<>>,
             keys |-> <<>>]]

ResolveAll(recs, heap, order) ==
  [i \in 1..Len(recs) |-> ResolveRecord(recs[i], heap, order)]

\* lines 176-180: the value returned by _process_campaign_response
ParserResult(st, num_campaigns) ==
  IF st.raised THEN <<>>
  ELSE ResolveAll(SliceTo(st.campaigns, num_campaigns), st.heap, st.order)

RECURSIVE RunLines(_, _)
RunLines(st, lines) ==
  IF lines = <<>> THEN st ELSE RunLines(ProcessLine(st, Head(lines)), Tail(lines))

\* _process_campaign_response as a function of the text and num_campaigns
parse_campaigns(lines, num_campaigns) ==
  ParserResult(FinishParser(RunLines(InitParser, lines)), num_campaigns)

(***************************************************************************)
(* State.                                                                  *)
(*   lines          the lines of the response consumed so far              *)
(*   parser         the local variables of _process_campaign_response      *)
(*   requested      the num_campaigns argument given to the constructor    *)
(*   num_campaigns  self.num_campaigns                                     *)
(*   phase          "reading" inside the loop, "done" after the return     *)
(*   result         the returned list                                      *)
(***************************************************************************)
VARIABLES lines, parser, requested, num_campaigns, phase, result

parserVars == <<lines, parser, requested, num_campaigns, phase, result>>

(***************************************************************************)
(* State of the app (src/app.py).                                          *)
(*   research_cache, marketing_cache   st.session_state caches             *)
(*   collections                       the persistent Chroma collections   *)
(*   agent_session_id                  marketing_agent.session_id          *)
(*   now                               the clock, in ticks                 *)
(*   epoch                             the number of the browser session   *)
(*   gen_count                         generator invocations so far        *)
(*   last                              the latest get-or-generate call     *)
(*                                     that returned                       *)
(*   pending                           the call that is suspended at the   *)
(*                                     await of its agent                  *)
(*   duplicate_ids                     what collection.add of the chromadb *)
(*                                     in use does with an id it holds     *)
(***************************************************************************)
VARIABLES research_cache, marketing_cache, collections, agent_session_id,
          now, epoch, gen_count, last, pending, duplicate_ids

cacheVars == <<research_cache, marketing_cache, collections, agent_session_id,
               now, epoch, gen_count, last, pending, duplicate_ids>>

(***************************************************************************)
(* State of a retried call and of concurrent sessions.                     *)
(*   retry   the state of tenacity's retry loop around                     *)
(*           generate_campaign_ideas                                       *)
(*   procs   the sessions that run a get-or-generate call concurrently,    *)
(*           each with its own st.session_state and its own agents         *)
(*   agent_run   the position of one MarketingAgent.run call, the list     *)
(*           generate_ad_content was called with and the ids add_texts     *)
(*           returned                                                      *)
(*   orch    the position of one                                           *)
(*           AdCampaignOrchestrator.generate_campaign_assets call, its     *)
(*           campaigns and its results                                     *)
(***************************************************************************)
VARIABLES retry, procs

VARIABLES agent_run, orch

auxVars == <<retry, procs, agent_run, orch>>

vars == <<parserVars, cacheVars, auxVars>>

\* no retried call
NoRetry ==
  [status |-> "idle", attempt_number |-> 0, outcomes |-> <<>>,
   slept |-> <<>>, upcoming_sleep |-> 0, value |-> <<>>,
   error |-> [type |-> "", cause |-> ""]]

\* no MarketingAgent.run call
NoAgentRun ==
  [status |-> "idle", pc |-> 0, ideas |-> <<>>, ad_content_inputs |-> <<>>,
   stored |-> <<>>]

\* no orchestrator call
NoOrch ==
  [status |-> "idle", pc |-> "", campaigns |-> <<>>, i |-> 0,
   text_assets |-> <<>>, image_calls |-> <<>>, results |-> <<>>,
   error |-> ""]

\* no retried call, no concurrent session, no agent and no orchestrator call
IdleAux ==
  /\ retry = NoRetry
  /\ procs = <<>>
  /\ agent_run = NoAgentRun
  /\ orch = NoOrch

(***************************************************************************)
(* Inputs: the lines a response is made of and the constructor arguments.  *)
(***************************************************************************)
LinePool ==
  { <<"Campaign", ":", " ", "A">>,
    <<"Campaign", " ", "B">>,
    <<"1", ".", " ", "Core", " ", "Message", ":", " ", "Save">>,
    <<"2", ".", " ", "Visual", " ", "Theme", ":">>,
    <<"3", ".", " ", "Tone">>,
    <<"-", " ", "Mood", ":", " ", "calm">>,
    <<"-", " ", "bold">>,
    <<"Budget", ":", " ", "low">>,
    <<"4", " ", "Tone", ":", " ", "x">>,
    <<" ">> }

ParseCaps == {2, 5}

CapLinePool ==
  { <<"Campaign", ":", " ", "A">>,
    <<"Campaign", " ", "B">> }

CapInputs == {-1, 0, 1, 2, 10, 11, 12}

ScenarioText ==
  << <<"Campaign", ":", " ", "Launch", " ", "Day">>,
     <<"1", ".", " ", "Core", " ", "Message", ":", " ", "Save", " ", "energy">>,
     <<"2", ".", " ", "Visual", " ", "Theme", " ", "Description", ":">>,
     <<"-", " ", "Color", " ", "Palette", ":", " ", "green">>,
     <<"-", " ", "Mood", ":", " ", "hopeful">> >>

ScenarioPool == {ScenarioText[i] : i \in 1..Len(ScenarioText)}

MaxScenarioLines == 5

\* CampaignIdeaGenerator.__init__ followed by the entry of
\* _process_campaign_response
InitWith(caps) ==
  /\ research_cache = <<>>
  /\ marketing_cache = <<>>
  /\ collections = <<>>
  /\ agent_session_id = ""
  /\ now = 0
  /\ epoch = 0
  /\ gen_count = 0
  /\ last = <<>>
  /\ pending = <<>>
  /\ duplicate_ids = "ignored"
  /\ IdleAux
  /\ requested \in caps
  /\ num_campaigns = ClampNumCampaigns(requested)
  /\ lines = <<>>
  /\ parser = InitParser
  /\ phase = "reading"
  /\ result = <<>>

InitParse == InitWith(ParseCaps)

InitCap == InitWith(CapInputs)

InitScenario == InitWith({5})

\* one iteration of the for loop on the next line of the response
ReadFrom(pool, limit) ==
  /\ phase = "reading"
  /\ ~parser.raised
  /\ Len(lines) < limit
  /\ \E l \in pool :
       /\ lines' = Append(lines, l)
       /\ parser' = ProcessLine(parser, l)
  /\ UNCHANGED <<requested, num_campaigns, phase, result>>
  /\ UNCHANGED <<cacheVars, auxVars>>

ReadLine == ReadFrom(LinePool, MaxLines)

ReadCapLine == ReadFrom(CapLinePool, MaxCapLines)

ReadScenarioLine == ReadFrom(ScenarioPool, MaxScenarioLines)

\* the end of the input (or the except clause): seal the last campaign and
\* return the capped list
Return ==
  /\ phase = "reading"
  /\ phase' = "done"
  /\ parser' = FinishParser(parser)
  /\ result' = ParserResult(parser', num_campaigns)
  /\ UNCHANGED <<lines, requested, num_campaigns>>
  /\ UNCHANGED <<cacheVars, auxVars>>

NextParse == ReadLine \/ Return

NextCap == ReadCapLine \/ Return

NextScenario == ReadScenarioLine \/ Return

SpecParse == InitParse /\ [][NextParse]_vars

SpecCap == InitCap /\ [][NextCap]_vars

SpecScenario == InitScenario /\ [][NextScenario]_vars

(***************************************************************************)
(* _add_prompt_suggestions (campaign_generator.py lines 182-246) on the    *)
(* records the parser returns.  A prompt is built as a sequence of pieces, *)
(* stripped and joined into its text.                                      *)
(***************************************************************************)
EmptyDict == [kind |-> "dict", text |-> "", map |-> <<>>, keys |-> <<>>]

EmptyStr == [kind |-> "scalar", text |-> "", map |-> <<>>, keys |-> <<>>]

\* campaign.get(field, default)
Get(campaign, field, default) ==
  IF field \in DOMAIN campaign THEN campaign[field] ELSE default

\* SubGet without the placeholder
SubGetNoDefault(map, k, default) == IF k \in DOMAIN map THEN map[k] ELSE ""

\* mapping.get(k, default) on a subsection mapping
SubGet(map, k, default) == IF k \in DOMAIN map THEN map[k] ELSE default

\* the items of repr(mapping): the keys in insertion order
RECURSIVE ReprItems(_, _)
ReprItems(map, keys) ==
  IF keys = <<>> THEN ""
  ELSE "'" \o Head(keys) \o "': '" \o map[Head(keys)] \o "'" \o
       (IF Tail(keys) = <<>> THEN "" ELSE ", " \o ReprItems(map, Tail(keys)))

\* repr of a mapping of texts
DictRepr(map, keys) == "{" \o ReprItems(map, keys) \o "}"

\* the text an f-string puts in place of {value}
PyFormat(v) == IF v.kind = "dict" THEN DictRepr(v.map, v.keys) ELSE v.text

\* lines 185-194
theme_desc(campaign) ==
  LET visual_theme == Get(campaign, "visual_theme_description", EmptyDict)
  IN IF visual_theme.kind = "dict"
       THEN "Color palette: "
            \o SubGet(visual_theme.map, "color_palette", "professional")
            \o ". Style: "
            \o SubGet(visual_theme.map, "photography_illustration_style", "modern")
            \o ". Elements: "
            \o SubGet(visual_theme.map, "key_visual_elements", "clean and minimal")
            \o ". Mood: "
            \o SubGet(visual_theme.map, "mood_and_atmosphere", "professional")
       ELSE visual_theme.text

\* lines 196-203
emotion_desc(campaign) ==
  LET emotional_appeal == Get(campaign, "key_emotional_appeal", EmptyDict)
  IN IF emotional_appeal.kind = "dict"
       THEN SubGet(emotional_appeal.map, "primary_emotion", "professional")
            \o " mood with "
            \o SubGet(emotional_appeal.map, "supporting_psychological_triggers",
                       "trust and reliability")
       ELSE emotional_appeal.text

\* f"{campaign.get('core_message', '')}"
core_message_text(campaign) == PyFormat(Get(campaign, "core_message", EmptyStr))

\* lines 224-230
platforms(campaign) ==
  LET social_focus == Get(campaign, "social_media_focus", EmptyDict)
  IN IF social_focus.kind = "dict"
       THEN SubGet(social_focus.map, "primary_platforms", "")
       ELSE social_focus.text

content_format(campaign) ==
  LET social_focus == Get(campaign, "social_media_focus", EmptyDict)
  IN IF social_focus.kind = "dict"
       THEN SubGet(social_focus.map, "content_format_recommendations", "")
       ELSE "engaging social media content"

\* the pieces that are not empty: an empty piece adds nothing to the text
NonEmpty(s) == SelectSeq(s, LAMBDA t : t # "")

\* prompt.strip(), as text
StripText(pieces) == Join(Strip(NonEmpty(pieces)))

\* lines 206-212
product_prompt(campaign) ==
  << theme_desc(campaign), ".", " ", "Focus on ", core_message_text(campaign),
     ". Style: Professional photography, ", emotion_desc(campaign),
     ", photorealistic quality, advertisement composition, ",
     "product-centric, commercial lighting" >>

\* lines 215-221
brand_prompt(campaign) ==
  << "Scene capturing ", emotion_desc(campaign), " through ",
     theme_desc(campaign), ". Emphasizing: ", core_message_text(campaign),
     ". Style: Cinematic lighting, emotional depth, photorealistic quality, ",
     "lifestyle photography, brand storytelling" >>

\* lines 232-238
social_prompt(campaign) ==
  << "Social media content for ", platforms(campaign), ". ",
     theme_desc(campaign), ". Format: ", content_format(campaign),
     ". Style: ", emotion_desc(campaign),
     ", high engagement, platform-optimized, scroll-stopping visuals" >>

\* lines 240-244: campaign['prompt_suggestions'] = {...}
WithPrompts(campaign) ==
  DictSet(campaign, "prompt_suggestions",
          [kind |-> "dict", text |-> "",
           map |-> [product_focused |-> StripText(product_prompt(campaign)),
                    brand_focused |-> StripText(brand_prompt(campaign)),
                    social_media |-> StripText(social_prompt(campaign))],
           keys |-> <<"product_focused", "brand_focused", "social_media">>])

\* _add_prompt_suggestions(campaigns)
add_prompt_suggestions(campaigns) ==
  [i \in 1..Len(campaigns) |-> WithPrompts(campaigns[i])]

\* the lines a response may hold for each section the prompts read: none, a
\* header with content, a header with an empty content, a header followed
\* by a bullet the prompts read, a header followed by another bullet; for
\* the core message, whose mapping is rendered with repr, also a header
\* followed by two bullets and by three bullets of which one repeats a key
ThemeLines ==
  { <<>>,
    << <<"1", ".", " ", "Visual", " ", "Theme", " ", "Description", ":", " ", "bold">> >>,
    << <<"1", ".", " ", "Visual", " ", "Theme", " ", "Description", ":">> >>,
    << <<"1", ".", " ", "Visual", " ", "Theme", " ", "Description">>,
       <<"-", " ", "Color", " ", "Palette", ":", " ", "green">> >>,
    << <<"1", ".", " ", "Visual", " ", "Theme", " ", "Description">>,
       <<"-", " ", "Tone", ":", " ", "calm">> >> }

EmotionLines ==
  { <<>>,
    << <<"2", ".", " ", "Key", " ", "Emotional", " ", "Appeal", ":", " ", "warm">> >>,
    << <<"2", ".", " ", "Key", " ", "Emotional", " ", "Appeal">>,
       <<"-", " ", "Primary", " ", "Emotion", ":", " ", "joy">> >>,
    << <<"2", ".", " ", "Key", " ", "Emotional", " ", "Appeal">>,
       <<"-", " ", "Tone", ":", " ", "calm">> >> }

CoreLines ==
  { <<>>,
    << <<"3", ".", " ", "Core", " ", "Message", ":", " ", "Save">> >>,
    << <<"3", ".", " ", "Core", " ", "Message", ":">> >>,
    << <<"3", ".", " ", "Core", " ", "Message">>,
       <<"-", " ", "Tone", ":", " ", "calm">> >>,
    << <<"3", ".", " ", "Core", " ", "Message">>,
       <<"-", " ", "Tone", ":", " ", "calm">>,
       <<"-", " ", "Mood", ":", " ", "bold">> >>,
    << <<"3", ".", " ", "Core", " ", "Message">>,
       <<"-", " ", "Mood", ":", " ", "bold">>,
       <<"-", " ", "Tone", ":", " ", "calm">>,
       <<"-", " ", "Mood", ":", " ", "warm">> >> }

SocialLines ==
  { <<>>,
    << <<"4", ".", " ", "Social", " ", "Media", " ", "Focus", ":", " ", "web">> >>,
    << <<"4", ".", " ", "Social", " ", "Media", " ", "Focus">>,
       <<"-", " ", "Primary", " ", "Platforms", ":", " ", "web">> >>,
    << <<"4", ".", " ", "Social", " ", "Media", " ", "Focus">>,
       <<"-", " ", "Tone", ":", " ", "calm">> >> }

\* responses of one campaign made of those sections
PromptTexts ==
  { << <<"Campaign", ":", " ", "A">> >> \o t \o e \o c \o m :
      t \in ThemeLines, e \in EmotionLines, c \in CoreLines, m \in SocialLines }

\* generate_campaign_ideas after line 110: the parsed response
InitPrompts ==
  /\ research_cache = <<>>
  /\ marketing_cache = <<>>
  /\ collections = <<>>
  /\ agent_session_id = ""
  /\ now = 0
  /\ epoch = 0
  /\ gen_count = 0
  /\ last = <<>>
  /\ pending = <<>>
  /\ duplicate_ids = "ignored"
  /\ IdleAux
  /\ requested = 5
  /\ num_campaigns = ClampNumCampaigns(requested)
  /\ lines \in PromptTexts
  /\ parser = FinishParser(RunLines(InitParser, lines))
  /\ phase = "parsed"
  /\ result = ParserResult(parser, num_campaigns)

\* line 113: campaigns = self._add_prompt_suggestions(campaigns)
AddPromptSuggestions ==
  /\ phase = "parsed"
  /\ phase' = "prompted"
  /\ result' = add_prompt_suggestions(result)
  /\ UNCHANGED <<lines, parser, requested, num_campaigns>>
  /\ UNCHANGED <<cacheVars, auxVars>>

NextPrompts == AddPromptSuggestions

SpecPrompts == InitPrompts /\ [][NextPrompts]_vars

(***************************************************************************)
(* The two-tier cache of src/app.py.                                       *)
(*                                                                         *)
(* Values.  A result is a Python value: the text of a research report, the *)
(* text "Error during research: ..." that ResearchAgent.run returns when   *)
(* it swallows a failure, the list of campaign records MarketingAgent.run  *)
(* returns, or str() of such a list (the form add_texts stores).  n tells  *)
(* the outputs of different generations apart.                             *)
(***************************************************************************)
Str(tag, n) == [py |-> "str", tag |-> tag, n |-> n, items |-> <<>>]

ListOf(items) == [py |-> "list", tag |-> "campaign_ideas", n |-> 0, items |-> items]

\* str(value)
PyStr(v) == [v EXCEPT !.py = "str"]

NoValue == Str("", 0)

MaxCalls == 2

MaxSessions == 2

TicksPerSecond == 2

\* the ticks that pass while the application runs
MaxTicks == 1

Companies == {"a", "a_b"}

Audiences == {"c", "b_c"}

\* datetime.utcnow().strftime("%Y%m%d_%H%M%S"): one name per second
SessionName(t) == "20260101_00000" \o ToString(t \div TicksPerSecond)

\* app.py line 50
ResearchKey(company, audience) == company \o "_" \o audience

\* app.py line 117
MarketingKey(company) == "marketing_" \o company

(***************************************************************************)
(* ChromaStore.  collections maps a collection name to the sequence of its *)
(* documents [id, document, metadata, timestamp].                          *)
(***************************************************************************)
\* chroma_store.py line 61
DocIds(session_id, texts) ==
  [i \in 1..Len(texts) |-> session_id \o "_" \o ToString(i - 1)]

IdsOf(coll) == {coll[i].id : i \in 1..Len(coll)}

\* What collection.add (chroma_store.py lines 73-77) does with a document
\* whose id the collection holds is chromadb's own, and the repository pins
\* no release of it.  The releases that know Settings(is_persistent=True)
\* (line 27) are documented to ignore the document; the other outcomes a
\* store can produce are that the call raises and that the document takes
\* the place of the held one.  A behaviour has one of them throughout.
DuplicateIdOutcomes == {"ignored", "raised", "replaced"}

\* the collection with the document of the held id exchanged for doc
ReplaceDoc(coll, doc) ==
  [i \in 1..Len(coll) |-> IF coll[i].id = doc.id THEN doc ELSE coll[i]]

\* collection.add (chroma_store.py lines 73-77) when it returns
RECURSIVE CollectionAdd(_, _, _)
CollectionAdd(coll, docs, on_duplicate) ==
  IF docs = <<>> THEN coll
  ELSE CollectionAdd(IF Head(docs).id \notin IdsOf(coll)
                       THEN Append(coll, Head(docs))
                     ELSE IF on_duplicate = "replaced"
                       THEN ReplaceDoc(coll, Head(docs))
                     ELSE coll,
                     Tail(docs), on_duplicate)

\* ChromaStore._get_collection (lines 31-36): get_or_create_collection
get_collection(colls, session_id) ==
  IF session_id \in DOMAIN colls THEN colls ELSE (session_id :> <<>>) @@ colls

\* whether ChromaStore.add_texts raises: collection.add is called outside
\* any try block (lines 73-77), so what it raises leaves add_texts
AddRaises(colls, texts, session_id, t, on_duplicate) ==
  LET sid == IF session_id = "" THEN SessionName(t) ELSE session_id
      ids == DocIds(sid, texts)
  IN /\ on_duplicate = "raised"
     /\ sid \in DOMAIN colls
     /\ \E i \in 1..Len(ids) : ids[i] \in IdsOf(colls[sid])

\* ChromaStore.add_texts (lines 38-79); session_id "" is the omitted
\* argument.  When collection.add raises, the collection that
\* _get_collection created (line 58) stays and no document is added.
add_texts(colls, texts, metadatas, session_id, t, on_duplicate) ==
  LET sid == IF session_id = "" THEN SessionName(t) ELSE session_id
      old == get_collection(colls, sid)[sid]
      ids == DocIds(sid, texts)
      docs == [i \in 1..Len(texts) |->
                 [id |-> ids[i],
                  document |-> texts[i],
                  metadata |-> ("session_id" :> sid) @@ metadatas[i],
                  timestamp |-> t]]
  IN IF AddRaises(colls, texts, session_id, t, on_duplicate)
       THEN get_collection(colls, sid)
       ELSE (sid :> CollectionAdd(old, docs, on_duplicate)) @@ colls

\* the where clause of app.py lines 66-71 and 133-138 on one document
Matches(doc, company, content_type) ==
  /\ "company_name" \in DOMAIN doc.metadata
  /\ doc.metadata["company_name"] = company
  /\ "content_type" \in DOMAIN doc.metadata
  /\ doc.metadata["content_type"] = content_type

MatchingDocs(colls, names, company, content_type) ==
  {d \in UNION {{colls[c][i] : i \in 1..Len(colls[c])} : c \in names} :
     Matches(d, company, content_type)}

\* the documents of the store
AllDocs(colls) ==
  UNION {{colls[c][i] : i \in 1..Len(colls[c])} : c \in DOMAIN colls}

NoDoc == [id |-> "", document |-> NoValue, metadata |-> <<>>, timestamp |-> 0]

\* ChromaStore.search without session_id (lines 130-159), k = 1.  The call
\* raises when list_collections or get_collection raises (outside the try of
\* line 145); a collection whose query raises is skipped (lines 152-154);
\* the ranking by distance is the store's, so any matching document of the
\* collections that answered can come first.
SearchOutcomes(colls, company, content_type) ==
  {[raised |-> TRUE, hit |-> FALSE, doc |-> NoDoc]}
  \cup
  UNION {
    LET answered == DOMAIN colls \ threw
        found == MatchingDocs(colls, answered, company, content_type)
    IN IF found = {}
         THEN {[raised |-> FALSE, hit |-> FALSE, doc |-> NoDoc]}
         ELSE {[raised |-> FALSE, hit |-> TRUE, doc |-> d] : d \in found}
    : threw \in SUBSET DOMAIN colls }

(***************************************************************************)
(* The agents.                                                             *)
(***************************************************************************)
\* ResearchAgent.run (agent.py lines 80-118): a failure of the model or of
\* the tools is caught and returned as text
ResearchRun(ok, n) ==
  IF ok THEN Str("report", n) ELSE Str("Error during research", n)

\* the ways await research_agent.run(prompt) ends: with the report, with
\* the text of a caught failure (agent.py lines 117-118), or raising, as the
\* check of lines 90-91 does outside the try block
ResearchOutcomes == {"report", "error_text", "raised"}

\* the dictionary get_research_data returns after the agent ended
\* (app.py lines 96-100 and 106-111)
ResearchEntry(outcome, n, t) ==
  IF outcome = "raised"
    THEN [result |-> Str("Error during research", n), source |-> "error",
          timestamp |-> t]
    ELSE [result |-> ResearchRun(outcome = "report", n),
          source |-> "new_research", timestamp |-> t]

\* responses of the model to the campaign prompt: a complete campaign, a
\* campaign without its required sections, and a text without any campaign
IdeaTexts ==
  { ScenarioText,
    << <<"Campaign", ":", " ", "A">> >>,
    <<>> }

\* CampaignIdeaGenerator.generate_campaign_ideas on those responses, with
\* the default num_campaigns = 5 (campaign_generator.py line 110)
IdeaLists ==
  { add_prompt_suggestions(parse_campaigns(text, ClampNumCampaigns(5))) :
      text \in IdeaTexts }

\* not campaign.get(field)  (marketing_strategy_agent.py line 285)
FieldMissing(campaign, field) ==
  \/ field \notin DOMAIN campaign
  \/ campaign[field].kind = "scalar" /\ campaign[field].text = ""
  \/ campaign[field].kind = "dict" /\ campaign[field].map = <<>>

RequiredFields == {"campaign_name", "core_message", "visual_theme_description"}

\* lines 273-288
IdeasValid(ideas) ==
  /\ ideas # <<>>
  /\ \A i \in 1..Len(ideas) :
       \A f \in RequiredFields : ~FieldMissing(ideas[i], f)

\* the steps of MarketingAgent.run that call a collaborator, in order, with
\* the content_type of the document stored after each (lines 189-261)
RunSteps ==
  << "brand_analysis", "audience_analysis", "market_analysis",
     "campaign_ideas", "ad_content" >>

\* whether a step of run can return.  generate_ad_content cannot: its
\* import of process_campaigns and save_processed_campaigns from
\* AdGen/ad_processor.py (line 159) fails, since that module defines
\* neither, and the failure is raised again as a RuntimeError (lines
\* 171-173)
StepOutcomes(step) == IF step = "ad_content" THEN {FALSE} ELSE BOOLEAN

\* the text run stores after step k (lines 193, 205, 217, 241, 254)
RunText(k, ideas, n) ==
  IF RunSteps[k] = "campaign_ideas"
    THEN PyStr(ListOf(ideas)) ELSE Str(RunSteps[k], n)

NoCall ==
  [fn |-> "none", company |-> "", key |-> "", force_new |-> FALSE,
   source |-> "", result |-> NoValue, timestamp |-> 0, generated |-> 0,
   gen_failed |-> FALSE, gen_raised |-> FALSE, searched |-> FALSE,
   raised |-> FALSE, epoch |-> 0, seq |-> 0, at |-> 0, prev_at |-> 0]

\* no call is suspended
NoPending ==
  [fn |-> "none", company |-> "", key |-> "", force_new |-> FALSE,
   run_pc |-> 0, gen_no |-> 0, gen_before |-> 0, docs |-> {}]

\* documents the persist directory holds when the application starts: an
\* analysis and a marketing analysis of company "a", with the company_name
\* metadata the lookups of app.py filter on (no add_texts call of this
\* repository sets company_name, so such documents come from outside it)
SeededCollections ==
  ("20251231_235959" :>
     << [id |-> "20251231_235959_0", document |-> Str("report", 0),
         metadata |-> [company_name |-> "a", content_type |-> "analysis",
                       session_id |-> "20251231_235959"],
         timestamp |-> 0],
        [id |-> "20251231_235959_1",
         document |-> PyStr(ListOf(parse_campaigns(ScenarioText, 5))),
         metadata |-> [company_name |-> "a",
                       content_type |-> "marketing_analysis",
                       session_id |-> "20251231_235959"],
         timestamp |-> 0] >>)

\* The state in which get_research_data and get_marketing_data are first
\* called: the two session caches are empty (app.py lines 187-190), the
\* store is the persist directory as it was left, and a marketing agent
\* has been constructed (MarketingAgent.__init__).  The functions read the
\* names vectorstore, research_agent and marketing_agent of their module;
\* the script as committed does not bind them (line 25 passes vectorstore=
\* to ResearchAgent.__init__, which has no such parameter, and raises
\* TypeError), so the cache model describes the functions under a caller
\* that binds these names and calls the functions as app.py does, each
\* through asyncio.run (lines 172-178).
InitCache ==
  /\ lines = <<>>
  /\ parser = InitParser
  /\ requested = 5
  /\ num_campaigns = ClampNumCampaigns(5)
  /\ phase = "idle"
  /\ result = <<>>
  /\ research_cache = <<>>
  /\ marketing_cache = <<>>
  /\ collections \in {<<>>, SeededCollections}
  /\ now = 1
  /\ agent_session_id = SessionName(1)
  /\ epoch = 1
  /\ gen_count = 0
  /\ last = NoCall
  /\ pending = NoPending
  /\ duplicate_ids \in DuplicateIdOutcomes
  /\ IdleAux

\* the dictionary a call returns
Entry(value, source, timestamp) ==
  [result |-> value, source |-> source, timestamp |-> timestamp]

\* the record kept of a call that returned entry: with the call's inputs
\* and outcome, the time at which it returned and the time at which the
\* call before it did
Returned(fn, company, key, force_new, entry, generated, gen_failed, gen_raised, searched) ==
  [fn |-> fn, company |-> company, key |-> key, force_new |-> force_new,
   source |-> entry.source, result |-> entry.result,
   timestamp |-> entry.timestamp, generated |-> generated,
   gen_failed |-> gen_failed, gen_raised |-> gen_raised,
   searched |-> searched, raised |-> FALSE, epoch |-> epoch,
   seq |-> last.seq + 1, at |-> now, prev_at |-> last.at]

\* the record kept of a call that vectorstore.search made raise
Raised(fn, company, key, force_new) ==
  [NoCall EXCEPT !.fn = fn, !.company = company, !.key = key,
                 !.force_new = force_new, !.source = "raised",
                 !.searched = TRUE, !.raised = TRUE, !.epoch = epoch,
                 !.seq = last.seq + 1, !.at = now, !.prev_at = last.at]

\* st.session_state.<cache>[cache_key] = data  (lines 83, 103, 148, 162)
StoreInSession(cache, key, entry) == DictSet(cache, key, entry)

\* SessionHit tagged as a persistent hit
SessionHitAsPersistent(cache, key) ==
  Entry(cache[key].result, "chroma_cache", cache[key].timestamp)

\* the session-cache hit of lines 53-58 and 120-125
SessionHit(cache, key) ==
  Entry(cache[key].result, "session_cache", cache[key].timestamp)

\* PersistentHit stamped with the time after the stored one
PersistentHitRestamped(doc) ==
  Entry(doc.document, "chroma_cache", doc.timestamp + 1)

\* the persistent hit of lines 77-81 and 143-147
PersistentHit(doc) == Entry(doc.document, "chroma_cache", doc.timestamp)

\* SearchIfAllowed searching whatever force_new says
SearchIfAllowedAlways(force_new, company, content_type) ==
  SearchOutcomes(collections, company, content_type)

\* lines 62-73 and 129-140: no search under force_new
SearchIfAllowed(force_new, company, content_type) ==
  IF force_new
    THEN {[raised |-> FALSE, hit |-> FALSE, doc |-> NoDoc]}
    ELSE SearchOutcomes(collections, company, content_type)

\* CacheAfterGeneration storing the entry of a failed generation too
CacheAfterGenerationAlways(cache, key, entry, gen_raised) ==
  StoreInSession(cache, key, entry)

\* lines 87-111 and 152-170: the session cache is written in the try block,
\* after the agent returned
CacheAfterGeneration(cache, key, entry, gen_raised) ==
  IF gen_raised THEN cache ELSE StoreInSession(cache, key, entry)

\* InvokeGenerator counting every call of the agent twice
InvokeGeneratorTwice(count) == count + 2

\* the single await research_agent.run(...) / marketing_agent.run(...) of
\* lines 88 and 153: the count of generator calls after it
InvokeGenerator(count) == count + 1

\* the dictionary get_marketing_data returns when marketing_agent.run
\* raised (lines 165-170)
MarketingError(n, t) ==
  [result |-> Str("Error during marketing analysis", n), source |-> "error",
   timestamp |-> t]

\* the call that is suspended at the await of its agent (lines 88-93,
\* 153, 258), with the documents of the store and the count of generator
\* calls it started from
Awaiting(fn, company, key, force_new) ==
  [fn |-> fn, company |-> company, key |-> key, force_new |-> force_new,
   run_pc |-> 1, gen_no |-> gen_count + 1, gen_before |-> gen_count,
   docs |-> AllDocs(collections)]

\* get_research_data(company, audience, force_new) up to its return or to
\* the await of the agent (lines 43-93), called through run_analysis
\* (lines 172-174) by a caller that constructed the agents for this call,
\* as a run of the script does.  asyncio.run returns when the call has
\* finished, so a session begins no call while one is suspended.
GetResearchData ==
  /\ pending = NoPending
  /\ last.seq < MaxCalls
  /\ agent_session_id' = SessionName(now)
  /\ UNCHANGED <<marketing_cache, collections, now, epoch>>
  /\ UNCHANGED <<parserVars, auxVars, duplicate_ids>>
  /\ \E company \in Companies, audience \in Audiences, force_new \in BOOLEAN :
       LET key == ResearchKey(company, audience)
       IN IF ~force_new /\ key \in DOMAIN research_cache
            THEN /\ last' = Returned("research", company, key, force_new,
                                     SessionHit(research_cache, key),
                                     0, FALSE, FALSE, FALSE)
                 /\ UNCHANGED <<research_cache, gen_count, pending>>
            ELSE \E s \in SearchIfAllowed(force_new, company, "analysis") :
                   IF s.raised
                     THEN /\ last' = Raised("research", company, key, force_new)
                          /\ UNCHANGED <<research_cache, gen_count, pending>>
                   ELSE IF s.hit
                     THEN /\ research_cache' =
                               StoreInSession(research_cache, key,
                                              PersistentHit(s.doc))
                          /\ last' = Returned("research", company, key,
                                              force_new, PersistentHit(s.doc),
                                              0, FALSE, FALSE, TRUE)
                          /\ UNCHANGED <<gen_count, pending>>
                   ELSE /\ gen_count' = InvokeGenerator(gen_count)
                        /\ pending' = Awaiting("research", company, key,
                                               force_new)
                        /\ UNCHANGED <<research_cache, last>>

\* the research agent ends and get_research_data goes on to its return
\* (lines 93-111): the entry carries the time after the await
ResumeResearchData ==
  /\ pending.fn = "research"
  /\ \E o \in ResearchOutcomes :
       LET entry == ResearchEntry(o, pending.gen_no, now)
       IN /\ research_cache' =
               CacheAfterGeneration(research_cache, pending.key, entry,
                                    o = "raised")
          /\ last' = Returned("research", pending.company, pending.key,
                              pending.force_new, entry, 1, o # "report",
                              o = "raised", ~pending.force_new)
  /\ pending' = NoPending
  /\ UNCHANGED <<marketing_cache, collections, agent_session_id, now, epoch,
                 gen_count>>
  /\ UNCHANGED <<parserVars, auxVars, duplicate_ids>>

\* get_marketing_data(research_result, company, force_new) up to its return
\* or to the await of the agent (lines 113-153), called through
\* run_marketing (lines 176-178) by a caller that constructed the agents
\* for this call
GetMarketingData ==
  /\ pending = NoPending
  /\ last.seq < MaxCalls
  /\ agent_session_id' = SessionName(now)
  /\ UNCHANGED <<research_cache, collections, now, epoch>>
  /\ UNCHANGED <<parserVars, auxVars, duplicate_ids>>
  /\ \E company \in Companies, force_new \in BOOLEAN :
       LET key == MarketingKey(company)
       IN IF ~force_new /\ key \in DOMAIN marketing_cache
            THEN /\ last' = Returned("marketing", company, key, force_new,
                                     SessionHit(marketing_cache, key),
                                     0, FALSE, FALSE, FALSE)
                 /\ UNCHANGED <<marketing_cache, gen_count, pending>>
            ELSE \E s \in SearchIfAllowed(force_new, company,
                                          "marketing_analysis") :
                   IF s.raised
                     THEN /\ last' = Raised("marketing", company, key,
                                            force_new)
                          /\ UNCHANGED <<marketing_cache, gen_count, pending>>
                   ELSE IF s.hit
                     THEN /\ marketing_cache' =
                               StoreInSession(marketing_cache, key,
                                              PersistentHit(s.doc))
                          /\ last' = Returned("marketing", company, key,
                                              force_new, PersistentHit(s.doc),
                                              0, FALSE, FALSE, TRUE)
                          /\ UNCHANGED <<gen_count, pending>>
                   ELSE /\ gen_count' = InvokeGenerator(gen_count)
                        /\ pending' = Awaiting("marketing", company, key,
                                               force_new)
                        /\ UNCHANGED <<marketing_cache, last>>

\* the lists generate_campaign_ideas can return at a step of run
StepIdeas(step) == IF step = "campaign_ideas" THEN IdeaLists ELSE {<<>>}

\* the awaited MarketingAgent.run goes on by one collaborator call
\* (marketing_strategy_agent.py lines 189-261).  When the call returns, run
\* stores its text with the time of that moment and awaits the next; when
\* the call or the add_texts after it raises, run raises (lines 303-306)
\* and get_marketing_data returns the error entry without caching it
\* (app.py lines 165-170).  generate_ad_content raises at its import (line
\* 160), so run never gets past its fifth call.
ResumeMarketingData ==
  /\ pending.fn = "marketing"
  /\ pending.run_pc <= Len(RunSteps)
  /\ \E ok \in StepOutcomes(RunSteps[pending.run_pc]),
        ideas \in StepIdeas(RunSteps[pending.run_pc]) :
       LET k == pending.run_pc
           text == RunText(k, ideas, pending.gen_no)
           stored == ok /\ ~AddRaises(collections, <<text>>,
                                      agent_session_id, now, duplicate_ids)
           entry == MarketingError(pending.gen_no, now)
       IN /\ collections' =
               IF ok
                 THEN add_texts(collections, <<text>>,
                                << ("content_type" :> RunSteps[k]) >>,
                                agent_session_id, now, duplicate_ids)
                 ELSE collections
          /\ IF stored
               THEN /\ pending' = [pending EXCEPT !.run_pc = k + 1]
                    /\ UNCHANGED <<marketing_cache, last>>
               ELSE /\ marketing_cache' =
                         CacheAfterGeneration(marketing_cache, pending.key,
                                              entry, TRUE)
                    /\ last' = Returned("marketing", pending.company,
                                        pending.key, pending.force_new,
                                        entry, 1, TRUE, TRUE,
                                        ~pending.force_new)
                    /\ pending' = NoPending
  /\ UNCHANGED <<research_cache, agent_session_id, now, epoch, gen_count>>
  /\ UNCHANGED <<parserVars, auxVars, duplicate_ids>>

\* the handler of the button 'Do More Research' up to the await of the
\* agent (lines 250-258): since research_history is not empty (a research
\* call of this browser session returned, which left its key in the
\* session cache) line 258 calls the research agent on the follow-up
\* prompt, by a run of the script, which constructed the agents anew
FollowUpResearch ==
  /\ pending = NoPending
  /\ research_cache # <<>>
  /\ gen_count < MaxCalls
  /\ gen_count' = InvokeGenerator(gen_count)
  /\ agent_session_id' = SessionName(now)
  /\ pending' = Awaiting("follow_up", "", "", FALSE)
  /\ UNCHANGED <<research_cache, marketing_cache, collections, now, epoch,
                 last>>
  /\ UNCHANGED <<parserVars, auxVars, duplicate_ids>>

\* the research agent of the follow-up ends (lines 258-268): its result and
\* the time of that moment go to research_history only, or what it raised
\* ends the run of the script; the caches and the store are left alone
ResumeFollowUp ==
  /\ pending.fn = "follow_up"
  /\ pending' = NoPending
  /\ UNCHANGED <<research_cache, marketing_cache, collections,
                 agent_session_id, now, epoch, gen_count, last>>
  /\ UNCHANGED <<parserVars, auxVars, duplicate_ids>>

\* MarketingAgent.__init__ (marketing_strategy_agent.py lines 32-61): the
\* caller constructs the agent anew, as every run of the script does; the
\* agent takes the current second as its session_id (line 60)
MarketingAgentInit ==
  /\ pending = NoPending
  /\ agent_session_id # SessionName(now)
  /\ agent_session_id' = SessionName(now)
  /\ UNCHANGED <<research_cache, marketing_cache, collections, now, epoch,
                 gen_count, last, pending>>
  /\ UNCHANGED <<parserVars, auxVars, duplicate_ids>>

\* a new browser session: st.session_state starts empty (lines 187-190)
NewSession ==
  /\ pending = NoPending
  /\ epoch < MaxSessions
  /\ epoch' = epoch + 1
  /\ research_cache' = <<>>
  /\ marketing_cache' = <<>>
  /\ agent_session_id' = SessionName(now)
  /\ UNCHANGED <<collections, now, gen_count, last, pending>>
  /\ UNCHANGED <<parserVars, auxVars, duplicate_ids>>

\* the session ids the store is asked about from outside the cache path
QueriedSessions == {"20260101_000009"}

\* ChromaStore.get_collection_stats(session_id) and ChromaStore.search
\* with a session_id (chroma_store.py lines 173-188 and 132-139): both go
\* through _get_collection, which creates the collection when the store
\* does not hold it, and neither changes anything else
GetCollection ==
  /\ \E session_id \in QueriedSessions :
       /\ session_id \notin DOMAIN collections
       /\ collections' = get_collection(collections, session_id)
  /\ UNCHANGED <<research_cache, marketing_cache, agent_session_id, now,
                 epoch, gen_count, last, pending>>
  /\ UNCHANGED <<parserVars, auxVars, duplicate_ids>>

\* time passes: datetime.utcnow() goes on whether or not a call is under
\* way, so the clock can advance between any two steps
Tick ==
  /\ now <= MaxTicks
  /\ now' = now + 1
  /\ UNCHANGED <<parserVars, research_cache, marketing_cache, collections,
                 agent_session_id, epoch, gen_count, last, pending,
                 duplicate_ids, auxVars>>

NextCache ==
  \/ GetResearchData
  \/ ResumeResearchData
  \/ GetMarketingData
  \/ ResumeMarketingData
  \/ FollowUpResearch
  \/ ResumeFollowUp
  \/ MarketingAgentInit
  \/ NewSession
  \/ GetCollection
  \/ Tick

SpecCache == InitCache /\ [][NextCache]_vars

(***************************************************************************)
(* Two sessions that run the same get-or-generate call concurrently.  Each *)
(* session is a run of the script in its own thread, with its own          *)
(* st.session_state and its own agents; the store is shared.  A call can   *)
(* be interleaved with another where it awaits the agent.                  *)
(***************************************************************************)
Procs == {1, 2}

\* the content_type the lookup of a function filters on (lines 69, 136)
ContentType(fn) == IF fn = "research" THEN "analysis" ELSE "marketing_analysis"

\* a session about to call the function for the company
ProcStart(fn, company) ==
  [pc |-> "start", fn |-> fn, company |-> company,
   key |-> IF fn = "research" THEN ResearchKey(company, "c")
                              ELSE MarketingKey(company),
   session_id |-> "", cache |-> <<>>, source |-> "", result |-> NoValue,
   timestamp |-> 0, gen_failed |-> FALSE, run_pc |-> 0, gen_no |-> 0]

InitConcurrent ==
  /\ lines = <<>>
  /\ parser = InitParser
  /\ requested = 5
  /\ num_campaigns = ClampNumCampaigns(5)
  /\ phase = "idle"
  /\ result = <<>>
  /\ research_cache = <<>>
  /\ marketing_cache = <<>>
  /\ collections \in {<<>>, SeededCollections}
  /\ now = 1
  /\ agent_session_id = ""
  /\ epoch = 1
  /\ gen_count = 0
  /\ last = NoCall
  /\ pending = NoPending
  /\ duplicate_ids \in DuplicateIdOutcomes
  /\ retry = NoRetry
  /\ agent_run = NoAgentRun
  /\ orch = NoOrch
  /\ procs \in [Procs -> {ProcStart(fn, company) :
                            fn \in {"research", "marketing"},
                            company \in Companies}]

\* the script of a session runs up to its return or to the await of the
\* agent: the agents are constructed (lines 14-41), the session cache is
\* empty and misses (lines 53, 120), the store is searched (lines 62-84,
\* 129-149) and, when nothing was found, the agent is called (lines 93,
\* 153)
Lookup(p) ==
  /\ procs[p].pc = "start"
  /\ \E s \in SearchOutcomes(collections, procs[p].company,
                               ContentType(procs[p].fn)) :
       LET started == [procs[p] EXCEPT !.session_id = SessionName(now)]
       IN IF s.raised
            THEN /\ procs' = [procs EXCEPT ![p] =
                      [started EXCEPT !.pc = "raised"]]
                 /\ UNCHANGED gen_count
          ELSE IF s.hit
            THEN /\ procs' = [procs EXCEPT ![p] =
                      [started EXCEPT
                         !.pc = "done",
                         !.cache = StoreInSession(@, started.key,
                                                  PersistentHit(s.doc)),
                         !.source = "chroma_cache",
                         !.result = s.doc.document,
                         !.timestamp = s.doc.timestamp]]
                 /\ UNCHANGED gen_count
          ELSE /\ procs' = [procs EXCEPT ![p] =
                    [started EXCEPT !.pc = "generating", !.run_pc = 1,
                                    !.gen_no = gen_count + 1]]
               /\ gen_count' = InvokeGenerator(gen_count)
  /\ UNCHANGED <<research_cache, marketing_cache, collections,
                 agent_session_id, now, epoch, last, pending, duplicate_ids>>
  /\ UNCHANGED <<parserVars, retry, agent_run, orch>>

\* the call of a session ends: the dictionary it returns and its session
\* cache (lines 96-111, 156-170)
Finished(proc, entry, gen_failed, gen_raised) ==
  [proc EXCEPT !.pc = "done",
               !.cache = CacheAfterGeneration(@, proc.key, entry, gen_raised),
               !.source = entry.source,
               !.result = entry.result,
               !.timestamp = entry.timestamp,
               !.gen_failed = gen_failed]

\* the agent a session awaits goes on.  The research agent stores nothing:
\* the step is its end, and the call returns with the time of that moment
\* (lines 93-111).  The marketing agent goes on by one collaborator call
\* and the add_texts after it (marketing_strategy_agent.py lines 189-261);
\* when either raises, run raises and the call returns the error entry
\* (lines 303-306, app.py lines 165-170).  generate_ad_content raises at
\* its import (line 160), so run never gets past its fifth call.  The other
\* session can run between any two of these steps.
Generate(p) ==
  /\ procs[p].pc = "generating"
  /\ IF procs[p].fn = "research"
       THEN /\ \E o \in ResearchOutcomes :
                 procs' = [procs EXCEPT ![p] =
                   Finished(@, ResearchEntry(o, procs[p].gen_no, now),
                            o # "report", o = "raised")]
            /\ UNCHANGED collections
       ELSE /\ procs[p].run_pc <= Len(RunSteps)
            /\ \E ok \in StepOutcomes(RunSteps[procs[p].run_pc]),
                  ideas \in StepIdeas(RunSteps[procs[p].run_pc]) :
                 LET k == procs[p].run_pc
                     text == RunText(k, ideas, procs[p].gen_no)
                     stored == ok /\ ~AddRaises(collections, <<text>>,
                                                procs[p].session_id, now,
                                                duplicate_ids)
                 IN /\ collections' =
                         IF ok
                           THEN add_texts(collections, <<text>>,
                                          << ("content_type" :> RunSteps[k]) >>,
                                          procs[p].session_id, now,
                                          duplicate_ids)
                           ELSE collections
                    /\ procs' = [procs EXCEPT ![p] =
                         IF stored
                           THEN [@ EXCEPT !.run_pc = k + 1]
                           ELSE Finished(@, MarketingError(procs[p].gen_no,
                                                           now),
                                         TRUE, TRUE)]
  /\ UNCHANGED <<parserVars, research_cache, marketing_cache,
                 agent_session_id, now, epoch, gen_count, last, pending,
                 duplicate_ids, retry, agent_run, orch>>

NextConcurrent ==
  \/ \E p \in Procs : Lookup(p)
  \/ \E p \in Procs : Generate(p)
  \/ GetCollection
  \/ Tick

SpecConcurrent == InitConcurrent /\ [][NextConcurrent]_vars

(***************************************************************************)
(* The retry policy of generate_campaign_ideas (campaign_generator.py      *)
(* lines 78-81): tenacity's @retry(stop=stop_after_attempt(3),             *)
(* wait=wait_exponential(multiplier=1, min=4, max=10)), with tenacity's    *)
(* defaults for the rest: every Exception is retried, and reraise is off.  *)
(***************************************************************************)
MaxAttempts == 3

WaitMultiplier == 1

WaitMin == 4

WaitMax == 10

\* the exceptions chain.arun may raise
ExceptionTypes == {"RateLimitError", "TimeoutError", "ValueError", "KeyError"}

\* what one call of the wrapped function does: chain.arun raises, or it
\* returns a response
AttemptOutcomes ==
  {[ok |-> FALSE, type |-> e, text |-> <<>>] : e \in ExceptionTypes}
    \cup {[ok |-> TRUE, type |-> "", text |-> t] : t \in IdeaTexts}

\* lines 107-115: the value the wrapped function returns for a response
GeneratedValue(text) ==
  add_prompt_suggestions(parse_campaigns(text, ClampNumCampaigns(5)))

\* ShouldStop giving up one attempt early
ShouldStopEarly(attempt_number) == attempt_number >= MaxAttempts - 1

\* stop_after_attempt(3)
ShouldStop(attempt_number) == attempt_number >= MaxAttempts

\* wait_exponential(multiplier=1, min=4, max=10) after the given attempt
wait_exponential(attempt_number) ==
  LET exp == 2 ^ (attempt_number - 1)
      wait == WaitMultiplier * exp
      capped == IF wait < WaitMax THEN wait ELSE WaitMax
  IN IF capped > WaitMin THEN capped ELSE WaitMin

\* the exception tenacity raises when it stops (reraise=False): a
\* RetryError whose cause is the failure of the last attempt
RetryRaise(failure) == [type |-> "RetryError", cause |-> failure]

\* a call of generate_campaign_ideas enters the retry loop
InitRetry ==
  /\ research_cache = <<>>
  /\ marketing_cache = <<>>
  /\ collections = <<>>
  /\ agent_session_id = ""
  /\ now = 0
  /\ epoch = 0
  /\ gen_count = 0
  /\ last = <<>>
  /\ pending = <<>>
  /\ duplicate_ids = "ignored"
  /\ requested = 5
  /\ num_campaigns = ClampNumCampaigns(requested)
  /\ lines = <<>>
  /\ parser = InitParser
  /\ phase = "idle"
  /\ result = <<>>
  /\ procs = <<>>
  /\ agent_run = NoAgentRun
  /\ orch = NoOrch
  /\ retry = [NoRetry EXCEPT !.status = "calling"]

\* one attempt: the wrapped function is called
Attempt ==
  /\ retry.status = "calling"
  /\ \E o \in AttemptOutcomes :
       LET n == retry.attempt_number + 1
           called == [retry EXCEPT !.attempt_number = n,
                                   !.outcomes = Append(@, o)]
       IN retry' =
            IF o.ok
              THEN [called EXCEPT !.status = "returned",
                                  !.value = GeneratedValue(o.text)]
            ELSE IF ShouldStop(n)
              THEN [called EXCEPT !.status = "raised",
                                  !.error = RetryRaise(o.type)]
            ELSE [called EXCEPT !.status = "waiting",
                                !.upcoming_sleep = wait_exponential(n)]
  /\ UNCHANGED <<parserVars, cacheVars, procs, agent_run, orch>>

\* the sleep between two attempts
Sleep ==
  /\ retry.status = "waiting"
  /\ retry' = [retry EXCEPT !.status = "calling",
                            !.slept = Append(@, retry.upcoming_sleep),
                            !.upcoming_sleep = 0]
  /\ UNCHANGED <<parserVars, cacheVars, procs, agent_run, orch>>

NextRetry == Attempt \/ Sleep

SpecRetry == InitRetry /\ [][NextRetry]_vars

(***************************************************************************)
(* One MarketingAgent.run call, step by step                               *)
(* (marketing_strategy_agent.py lines 175-306), with self.vectorstore set. *)
(***************************************************************************)
\* ticks of the clock during one run
MaxRunTicks == 3

\* the pair of an id add_texts returned (chroma_store.py line 79) and the
\* text it was returned for
StoredAs(session_id, text) ==
  [id |-> DocIds(session_id, <<text>>)[1], text |-> text]

InitRun ==
  /\ research_cache = <<>>
  /\ marketing_cache = <<>>
  /\ collections = <<>>
  /\ agent_session_id = SessionName(1)
  /\ now = 1
  /\ epoch = 0
  /\ gen_count = 0
  /\ last = <<>>
  /\ pending = <<>>
  /\ duplicate_ids \in DuplicateIdOutcomes
  /\ requested = 5
  /\ num_campaigns = ClampNumCampaigns(requested)
  /\ lines = <<>>
  /\ parser = InitParser
  /\ phase = "idle"
  /\ result = <<>>
  /\ procs = <<>>
  /\ retry = NoRetry
  /\ orch = NoOrch
  /\ agent_run = [NoAgentRun EXCEPT !.status = "running", !.pc = 1]

\* one collaborator call of run and the add_texts after it (lines 189-261):
\* analyze_brand, map_audience, assess_market_position,
\* generate_campaign_ideas and generate_ad_content, which is called with the
\* list generate_campaign_ideas returned (line 250).  generate_ad_content
\* raises at its import (line 160), so the validation and the last
\* add_texts of run (lines 263-301) are never reached.  An add_texts that
\* raises ends run like a collaborator that raises (lines 303-306).
RunStep ==
  /\ agent_run.status = "running"
  /\ agent_run.pc \in 1..Len(RunSteps)
  /\ \E ok \in StepOutcomes(RunSteps[agent_run.pc]), generated \in IdeaLists :
       LET k == agent_run.pc
           ideas == IF RunSteps[k] = "campaign_ideas"
                      THEN generated ELSE agent_run.ideas
           called == [agent_run EXCEPT
                        !.ad_content_inputs =
                          IF RunSteps[k] = "ad_content"
                            THEN Append(@, agent_run.ideas) ELSE @]
           text == RunText(k, ideas, 1)
       IN IF ok
            THEN /\ agent_run' =
                      IF AddRaises(collections, <<text>>, agent_session_id,
                                   now, duplicate_ids)
                        THEN [called EXCEPT !.ideas = ideas,
                                            !.status = "raised"]
                        ELSE [called EXCEPT
                                !.pc = k + 1,
                                !.ideas = ideas,
                                !.stored =
                                  Append(@, StoredAs(agent_session_id, text))]
                 /\ collections' =
                      add_texts(collections, <<text>>,
                                << ("content_type" :> RunSteps[k]) >>,
                                agent_session_id, now, duplicate_ids)
            ELSE /\ agent_run' = [called EXCEPT !.status = "raised"]
                 /\ UNCHANGED collections
  /\ UNCHANGED <<research_cache, marketing_cache, agent_session_id, now,
                 epoch, gen_count, last, pending, duplicate_ids>>
  /\ UNCHANGED <<parserVars, retry, procs, orch>>

\* time passes during the run
RunTick ==
  /\ agent_run.status = "running"
  /\ now <= MaxRunTicks
  /\ now' = now + 1
  /\ UNCHANGED <<research_cache, marketing_cache, collections,
                 agent_session_id, epoch, gen_count, last, pending,
                 duplicate_ids>>
  /\ UNCHANGED <<parserVars, auxVars>>

NextRun == RunStep \/ RunTick

SpecRun == InitRun /\ [][NextRun]_vars

(***************************************************************************)
(* One AdCampaignOrchestrator.generate_campaign_assets call, step by step  *)
(* (orchestrator.py lines 53-138).                                         *)
(***************************************************************************)
\* responses of the campaign generator: no campaign, one, two and three
\* campaigns, and responses with a key: value line before the first
\* campaign line
OrchTexts ==
  LET a == <<"Campaign", ":", " ", "A">>
      b == <<"Campaign", " ", "B">>
      budget == <<"Budget", ":", " ", "low">>
  IN { <<>>, <<a>>, <<a, b>>, <<a, b, a>>, <<budget, a>>, <<a, budget, b>>,
       <<budget, a, b>> }

InitOrch ==
  /\ research_cache = <<>>
  /\ marketing_cache = <<>>
  /\ collections = <<>>
  /\ agent_session_id = ""
  /\ now = 0
  /\ epoch = 0
  /\ gen_count = 0
  /\ last = <<>>
  /\ pending = <<>>
  /\ duplicate_ids = "ignored"
  /\ requested = 5
  /\ num_campaigns = ClampNumCampaigns(requested)
  /\ lines = <<>>
  /\ parser = InitParser
  /\ phase = "idle"
  /\ result = <<>>
  /\ procs = <<>>
  /\ retry = NoRetry
  /\ agent_run = NoAgentRun
  /\ orch = [NoOrch EXCEPT !.status = "running", !.pc = "ideas"]

\* line 68: the campaign generator returns a list or raises, and what it
\* raises leaves the call through the outer handler (lines 136-138)
OrchGenerateIdeas ==
  /\ orch.status = "running"
  /\ orch.pc = "ideas"
  /\ \/ \E text \in OrchTexts :
          orch' = [orch EXCEPT !.campaigns = GeneratedValue(text),
                               !.i = 1, !.pc = "dir"]
     \/ orch' = [orch EXCEPT !.status = "raised", !.error = "RetryError"]
  /\ UNCHANGED <<parserVars, cacheVars, retry, procs, agent_run>>

\* the continue of line 132 and the end of a loop body: the next campaign
OrchContinue(o) == [o EXCEPT !.i = @ + 1, !.pc = "dir"]

\* line 75: campaign['campaign_name'] is read.  Without the key the
\* KeyError is caught at line 130, line 131 reads campaign['campaign_name']
\* again inside the handler, and that KeyError leaves the loop and the call
\* through the outer handler (lines 136-138)
CreateCampaignDirectory ==
  /\ orch.status = "running"
  /\ orch.pc = "dir"
  /\ orch.i <= Len(orch.campaigns)
  /\ orch' = IF "campaign_name" \in DOMAIN orch.campaigns[orch.i]
               THEN [orch EXCEPT !.pc = "assets"]
               ELSE [orch EXCEPT !.status = "raised", !.error = "KeyError"]
  /\ UNCHANGED <<parserVars, cacheVars, retry, procs, agent_run>>

\* lines 78-92: the creative agent produces tagline, story and image prompt
\* and both texts are saved, or the creative agent raises and the campaign
\* is skipped (lines 130-132)
GenerateTextAssets ==
  /\ orch.status = "running"
  /\ orch.pc = "assets"
  /\ \E ok \in BOOLEAN :
       orch' = IF ok
                 THEN [orch EXCEPT !.pc = "image",
                                   !.text_assets = Append(@, orch.i)]
                 ELSE OrchContinue(orch)
  /\ UNCHANGED <<parserVars, cacheVars, retry, procs, agent_run>>

\* lines 95-128: the image is generated, the details are saved and the
\* campaign is appended to results, or the image generator raises and the
\* campaign is skipped (lines 130-132)
GenerateImage ==
  /\ orch.status = "running"
  /\ orch.pc = "image"
  /\ \E ok \in BOOLEAN :
       LET called == [orch EXCEPT !.image_calls = Append(@, orch.i)]
       IN orch' =
            IF ok
              THEN OrchContinue(
                     [called EXCEPT
                        !.results =
                          Append(@, [index |-> orch.i,
                                     campaign_name |->
                                       orch.campaigns[orch.i]["campaign_name"]])])
              ELSE OrchContinue(called)
  /\ UNCHANGED <<parserVars, cacheVars, retry, procs, agent_run>>

\* line 134: return results
OrchReturn ==
  /\ orch.status = "running"
  /\ orch.pc = "dir"
  /\ orch.i > Len(orch.campaigns)
  /\ orch' = [orch EXCEPT !.status = "returned"]
  /\ UNCHANGED <<parserVars, cacheVars, retry, procs, agent_run>>

NextOrch ==
  \/ OrchGenerateIdeas
  \/ CreateCampaignDirectory
  \/ GenerateTextAssets
  \/ GenerateImage
  \/ OrchReturn

SpecOrch == InitOrch /\ [][NextOrch]_vars

(***************************************************************************)
(* Properties of the parser.                                               *)
(***************************************************************************)
\* the positions of the campaign-start lines of a text
StartIdx(ls) == {i \in 1..Len(ls) : StartsWithCampaign(Strip(ls[i]))}

NumStarts(ls) == Cardinality(StartIdx(ls))

\* the position of the n-th campaign-start line
NthStart(ls, n) ==
  CHOOSE i \in StartIdx(ls) : Cardinality({j \in StartIdx(ls) : j <= i}) = n

\* the n-th campaign-start line with the lines up to the next one
Block(ls, n) ==
  SubSeq(ls, NthStart(ls, n),
         IF n < NumStarts(ls) THEN NthStart(ls, n + 1) - 1 ELSE Len(ls))

NonBlankIdx(ls) == {i \in 1..Len(ls) : Strip(ls[i]) # <<>>}

\* a digit-led line whose text before the first colon holds no period
BadHeader(l) ==
  StartsWithDigit(Strip(l)) /\ ~Contains(SplitOnceHead(Strip(l), ":"), ".")

\* a response in the format the prompt asks for: it opens with a campaign
\* line and every numbered header has its period
WellFormed(ls) ==
  /\ NonBlankIdx(ls) # {}
  /\ \A i \in NonBlankIdx(ls) :
       (\A j \in NonBlankIdx(ls) : i <= j) => i \in StartIdx(ls)
  /\ \A i \in 1..Len(ls) : ~BadHeader(ls[i])

Min(a, b) == IF a < b THEN a ELSE b

Max(a, b) == IF a > b THEN a ELSE b

\* C1 (as claimed): a text without any campaign-start line parses to the
\* empty sequence, also when it holds numbered headers, bullets or
\* key:value lines.
C1_NoStartGivesEmpty ==
  (phase = "done" /\ NumStarts(lines) = 0) => result = <<>>

\* C2: a well-formed text with N campaign-start lines, N not above the cap,
\* parses to exactly N records, the n-th of which is the record of the n-th
\* campaign-start line and of the lines up to the next campaign-start line.
C2_RecordsInInputOrder ==
  (phase = "done" /\ WellFormed(lines) /\ NumStarts(lines) <= num_campaigns)
    => /\ Len(result) = NumStarts(lines)
       /\ \A n \in 1..NumStarts(lines) :
            /\ result[n]["campaign_name"].text
                 = CampaignName(Strip(lines[NthStart(lines, n)]))
            /\ <<result[n]>> = parse_campaigns(Block(lines, n), 1)

C2_Witness ==
  /\ phase = "done"
  /\ WellFormed(lines)
  /\ NumStarts(lines) = 3
  /\ Len(lines) = 4
  /\ Len(result) = 3
  /\ \E k \in DOMAIN result[2] : k # "campaign_name"

ScenarioRecord ==
  [campaign_name |-> [EmptyStr EXCEPT !.text = "Launch Day"],
   core_message |-> [EmptyStr EXCEPT !.text = "Save energy"],
   visual_theme_description |->
     [kind |-> "dict", text |-> "",
      map |-> [color_palette |-> "green", mood |-> "hopeful"],
      keys |-> <<"color_palette", "mood">>]]

\* C3: the five-line text of the scenario, parsed with cap 5, gives exactly
\* one record: campaign_name 'Launch Day', core_message 'Save energy' and
\* visual_theme_description the mapping {color_palette: green, mood: hopeful}.
C3_ScenarioRecord ==
  (phase = "done" /\ lines = ScenarioText /\ requested = 5)
    => result = <<ScenarioRecord>>

C3_Witness ==
  phase = "done" /\ lines = ScenarioText /\ requested = 5 /\ Len(result) = 1

\* C4: with cap c given at construction and a text of N campaigns the
\* result is the first min(N, max(1, min(c, 10))) records in input order.
C4_CapAndClamp ==
  phase = "done"
    => /\ Len(result) = Min(NumStarts(lines), Max(1, Min(requested, 10)))
       /\ \A n \in 1..Len(result) :
            result[n] = ("campaign_name" :>
                           [EmptyStr EXCEPT
                              !.text = CampaignName(Strip(lines[n]))])

C4_Witness ==
  /\ phase = "done"
  /\ requested = 12
  /\ NumStarts(lines) = 11
  /\ Len(result) = 10

(***************************************************************************)
(* Properties of the cache.  A step that changes last is the return of a   *)
(* call of get_research_data or get_marketing_data; last is the call       *)
(* before it and last' the call itself.                                    *)
(***************************************************************************)
CallStep == last'.seq = last.seq + 1

\* the count of generator calls and the documents of the store when the
\* call that returns in this step began
GenBefore == IF pending = NoPending THEN gen_count ELSE pending.gen_before

DocsBefore ==
  IF pending = NoPending THEN AllDocs(collections) ELSE pending.docs

\* the call of this step follows the previous call on the same key in the
\* same browser session, both without force_new
SameKeyAgain ==
  /\ CallStep
  /\ last.fn # "none"
  /\ last'.fn = last.fn
  /\ last'.key = last.key
  /\ last'.epoch = last.epoch
  /\ ~last.force_new
  /\ ~last'.force_new

FreshSources == {"new_research", "new_analysis"}

\* C5 (as claimed): two consecutive calls for one key in one session, both
\* without force_new, the first of which finds the key in neither tier,
\* invoke the generator exactly once in total and the second returns a
\* session-cache hit with the result of the first.
C5_TwoCallsOneGeneration ==
  [][(SameKeyAgain /\ last.generated = 1) =>
       /\ last.generated + last'.generated = 1
       /\ last'.source = "session_cache"
       /\ last'.result = last.result]_vars

\* C6 (as claimed): after a call returned a freshly generated entry for a
\* key, a call for the same key from a fresh session (empty session cache)
\* returns a persistent hit with the same result, without generating.
C6_FreshEntryPersists ==
  [][(/\ CallStep
      /\ last.source \in FreshSources
      /\ ~last.gen_failed
      /\ last'.fn = last.fn
      /\ last'.key = last.key
      /\ last'.epoch > last.epoch
      /\ ~last'.force_new
      /\ ~last'.raised) =>
       /\ last'.source = "chroma_cache"
       /\ last'.result = last.result
       /\ last'.generated = 0]_vars

ErrorTexts == {"Error during research", "Error during marketing analysis"}

\* C7 (as claimed): a call whose underlying generation failed returns an
\* entry tagged error, and no session-cache entry holds a failure.
C7_FailureNeverCached ==
  /\ last.gen_failed => last.source = "error"
  /\ \A k \in DOMAIN research_cache :
       research_cache[k].result.tag \notin ErrorTexts
  /\ \A k \in DOMAIN marketing_cache :
       marketing_cache[k].result.tag \notin ErrorTexts

\* C8 (as claimed): a call whose persistent-store query throws does not
\* raise, invokes the generator and returns what it generated.
C8_QueryFailureIsMiss ==
  [][(CallStep /\ last'.searched /\ last'.raised) =>
       (last'.generated = 1 /\ last'.source \in FreshSources \cup {"error"})
    ]_vars

\* C9 (as claimed): a call whose generator raises does not raise, returns an
\* entry tagged error and leaves the session caches as they were and the
\* persistent store with the documents it held when the call began.
C9_GeneratorFailureChangesNothing ==
  [][(CallStep /\ last'.gen_raised) =>
       /\ ~last'.raised
       /\ last'.source = "error"
       /\ research_cache' = research_cache
       /\ marketing_cache' = marketing_cache
       /\ AllDocs(collections') = DocsBefore]_vars

\* the documents a lookup of get_research_data or get_marketing_data matches
CacheDocs(docs) ==
  {d \in docs :
     \E company \in Companies, ct \in {"analysis", "marketing_analysis"} :
       Matches(d, company, ct)}

\* the documents by which two sets of documents differ
DocsChanged(before, after) == (before \ after) \cup (after \ before)

\* the content types of the intermediate analyses MarketingAgent.run stores
IntermediateTypes == {RunSteps[k] : k \in 1..Len(RunSteps)}

\* C9 (amended): a call whose generator raises does not raise, returns an
\* entry tagged error and leaves the session caches exactly as they were;
\* the persistent store holds the same documents a cache lookup matches as
\* when the call began, and differs from then only in intermediate analyses
\* of the failing agent's own session, which MarketingAgent.run stored
\* before it failed.
C9_GeneratorFailureKeepsCaches ==
  [][(CallStep /\ last'.gen_raised) =>
       /\ ~last'.raised
       /\ last'.source = "error"
       /\ research_cache' = research_cache
       /\ marketing_cache' = marketing_cache
       /\ CacheDocs(AllDocs(collections')) = CacheDocs(DocsBefore)
       /\ \A d \in DocsChanged(DocsBefore, AllDocs(collections')) :
            /\ d.metadata["content_type"] \in IntermediateTypes
            /\ d.metadata["session_id"] = agent_session_id]_vars

\* a marketing call that returned the error entry a tick after its agent
\* stored the brand analysis
C9_Witness ==
  /\ last.gen_raised
  /\ last.source = "error"
  /\ \E d \in AllDocs(collections) :
       /\ d.timestamp < last.timestamp
       /\ d.metadata["content_type"] = "brand_analysis"

\* the session cache of a function after the step
CacheAfter(fn) == IF fn = "research" THEN research_cache' ELSE marketing_cache'

\* C10: a call that misses the session cache and whose persistent query
\* returns a match returns a matching document tagged chroma_cache without
\* generating and stores that entry in the session cache under the key; the
\* next call for the key without force_new is then a session-cache hit with
\* the same result and timestamp.
C10_PersistentHitPromoted ==
  [][/\ (CallStep /\ last'.source = "chroma_cache") =>
          /\ last'.generated = 0
          /\ \E d \in MatchingDocs(collections, DOMAIN collections,
                                   last'.company, ContentType(last'.fn)) :
               /\ last'.result = d.document
               /\ last'.timestamp = d.timestamp
          /\ last'.key \in DOMAIN CacheAfter(last'.fn)
          /\ CacheAfter(last'.fn)[last'.key] =
               Entry(last'.result, "chroma_cache", last'.timestamp)
     /\ (SameKeyAgain /\ last.source = "chroma_cache") =>
          /\ last'.source = "session_cache"
          /\ last'.result = last.result
          /\ last'.timestamp = last.timestamp]_vars

\* a session-cache hit on the entry a persistent hit stored, by a call that
\* returned a tick after the persistent hit did
C10_Witness ==
  /\ last.fn = "research"
  /\ last.source = "session_cache"
  /\ last.result = Str("report", 0)
  /\ last.timestamp = 0
  /\ gen_count = 0
  /\ last.seq = 2
  /\ last.prev_at = 1
  /\ last.at = 2

PromptKeys == {"product_focused", "brand_focused", "social_media"}

PromptFields ==
  {"visual_theme_description", "key_emotional_appeal", "core_message",
   "social_media_focus"}

\* the prompts of a record that has none of the fields the prompts read
PlaceholderPrompts ==
  [product_focused |->
     "Color palette: professional. Style: modern. Elements: clean and "
     \o "minimal. Mood: professional. Focus on . Style: Professional "
     \o "photography, professional mood with trust and reliability, "
     \o "photorealistic quality, advertisement composition, "
     \o "product-centric, commercial lighting",
   brand_focused |->
     "Scene capturing professional mood with trust and reliability through "
     \o "Color palette: professional. Style: modern. Elements: clean and "
     \o "minimal. Mood: professional. Emphasizing: . Style: Cinematic "
     \o "lighting, emotional depth, photorealistic quality, "
     \o "lifestyle photography, brand storytelling",
   social_media |->
     "Social media content for . Color palette: professional. Style: "
     \o "modern. Elements: clean and minimal. Mood: professional. "
     \o "Format: . Style: professional mood with trust and reliability, "
     \o "high engagement, platform-optimized, scroll-stopping visuals"]

\* C16: for every parsed record, whatever sections are absent, empty,
\* scalar or nested, _add_prompt_suggestions returns the record with a
\* prompt_suggestions mapping of exactly the three keys product_focused,
\* brand_focused and social_media, each a text, and leaves the other keys
\* as they were; a record with none of the sections gets the placeholders.
C16_PromptsTotal ==
  phase = "prompted" =>
    LET before == parse_campaigns(lines, num_campaigns)
    IN /\ Len(result) = Len(before)
       /\ \A i \in 1..Len(result) :
            /\ DOMAIN result[i] = DOMAIN before[i] \cup {"prompt_suggestions"}
            /\ \A k \in DOMAIN before[i] : result[i][k] = before[i][k]
            /\ result[i]["prompt_suggestions"].kind = "dict"
            /\ DOMAIN result[i]["prompt_suggestions"].map = PromptKeys
            /\ \A k \in PromptKeys :
                 result[i]["prompt_suggestions"].map[k] \in STRING
            /\ DOMAIN before[i] \cap PromptFields = {} =>
                 result[i]["prompt_suggestions"].map = PlaceholderPrompts

\* prompts made of a scalar theme, a nested core message and a nested
\* emotional appeal without the sub-key the prompts read
C16_Witness ==
  /\ phase = "prompted"
  /\ Len(result) = 1
  /\ {"visual_theme_description", "core_message", "key_emotional_appeal"}
       \subseteq DOMAIN result[1]
  /\ result[1]["visual_theme_description"].kind = "scalar"
  /\ result[1]["core_message"].kind = "dict"
  /\ result[1]["key_emotional_appeal"].kind = "dict"
  /\ "social_media_focus" \notin DOMAIN result[1]
  /\ result[1]["prompt_suggestions"].map["product_focused"] =
       "bold. Focus on {'tone': 'calm'}. Style: Professional photography, "
       \o "professional mood with trust and reliability, photorealistic "
       \o "quality, advertisement composition, product-centric, "
       \o "commercial lighting"

\* the session cache of a function before the step
CacheBefore(fn) == IF fn = "research" THEN research_cache ELSE marketing_cache

HitSources == {"session_cache", "chroma_cache"}

\* C11: lookup order.  A call without force_new whose key is in the session
\* cache returns that entry tagged session_cache, without querying the
\* persistent store and without generating, and changes nothing; the store
\* is queried only when the key is not in the session cache, and without
\* force_new the generator is invoked only after the query was made and
\* returned no match.
C11_LookupOrder ==
  [][CallStep =>
       /\ (~last'.force_new /\ last'.key \in DOMAIN CacheBefore(last'.fn)) =>
            /\ last'.source = "session_cache"
            /\ last'.result = CacheBefore(last'.fn)[last'.key].result
            /\ last'.timestamp = CacheBefore(last'.fn)[last'.key].timestamp
            /\ ~last'.searched
            /\ last'.generated = 0
            /\ UNCHANGED <<research_cache, marketing_cache, collections>>
       /\ last'.source = "session_cache" =>
            ~last'.force_new /\ last'.key \in DOMAIN CacheBefore(last'.fn)
       /\ last'.searched =>
            ~last'.force_new /\ last'.key \notin DOMAIN CacheBefore(last'.fn)
       /\ (last'.generated = 1 /\ ~last'.force_new) =>
            /\ last'.searched
            /\ ~last'.raised
            /\ last'.source \notin HitSources]_vars

\* a session-cache hit that differs from the matching document of the store
C11_Witness ==
  /\ last.fn = "research"
  /\ last.company = "a"
  /\ last.source = "session_cache"
  /\ last.result = Str("report", 1)
  /\ collections = SeededCollections

\* C12: a call with force_new invokes the generator exactly once, whatever
\* the session cache and the store hold for the key, does not raise from
\* the store and never returns a session-cache or persistent hit.
C12_ForceNewGenerates ==
  [][(CallStep /\ last'.force_new) =>
       /\ last'.generated = 1
       /\ gen_count' = GenBefore + 1
       /\ ~last'.searched
       /\ ~last'.raised
       /\ last'.source \notin HitSources]_vars

\* a forced call of the second kind for a company the store holds
C12_Witness ==
  /\ last.force_new
  /\ last.fn = "marketing"
  /\ last.company = "a"
  /\ last.source = "error"
  /\ last.generated = 1
  /\ last.timestamp = 2
  /\ gen_count = 1
  /\ "20251231_235959" \in DOMAIN collections

\* C13: every call invokes the generator at most once, on every path; a
\* failed generation is not tried again within the call.
C13_AtMostOneGeneration ==
  [][CallStep =>
       /\ gen_count' - GenBefore = last'.generated
       /\ last'.generated \in {0, 1}
       /\ last'.gen_failed => gen_count' = GenBefore + 1]_vars

\* a call whose research generation failed
C13_Witness ==
  /\ last.fn = "research"
  /\ last.gen_failed
  /\ last.generated = 1
  /\ gen_count = 2

\* every document of a collection is still there, in place, after the step
DocsKept ==
  \A c \in DOMAIN collections :
    /\ c \in DOMAIN collections'
    /\ Len(collections[c]) <= Len(collections'[c])
    /\ SubSeq(collections'[c], 1, Len(collections[c])) = collections[c]

\* C14 (as claimed): no step deletes or replaces a document of the store,
\* and every write adds a document: whenever an add_texts call of a run
\* returns, the store holds one document more than before.
C14_AppendOnly ==
  [][/\ DocsKept
     /\ Len(agent_run'.stored) > Len(agent_run.stored) =>
          Cardinality(AllDocs(collections')) > Cardinality(AllDocs(collections))
    ]_vars

\* the outcomes of the attempts before the last are all failures
EarlierFailed ==
  \A i \in 1..(Len(retry.outcomes) - 1) : ~retry.outcomes[i].ok

\* C17: a retried call whose first two attempts fail is attempted a third
\* time, and when the third attempt succeeds the call returns the value of
\* that attempt, the wrapped function having been called exactly 3 times.
C17_ThirdAttemptReturns ==
  /\ retry.attempt_number = Len(retry.outcomes)
  /\ (Len(retry.outcomes) = 2 /\ ~retry.outcomes[1].ok /\ ~retry.outcomes[2].ok)
       => retry.status \in {"waiting", "calling"}
  /\ (Len(retry.outcomes) = 3 /\ retry.outcomes[3].ok) =>
       /\ EarlierFailed
       /\ retry.status = "returned"
       /\ retry.attempt_number = 3
       /\ retry.value = GeneratedValue(retry.outcomes[3].text)

C17_Witness ==
  /\ retry.status = "returned"
  /\ retry.attempt_number = 3
  /\ retry.slept = <<4, 4>>
  /\ retry.value = GeneratedValue(ScenarioText)

\* C18 (as claimed): a retried call that fails on every attempt is
\* attempted exactly 3 times, whatever the exceptions are, and then raises
\* the failure of the last attempt itself.
C18_ReraisesLastFailure ==
  /\ retry.status = "raised" =>
       /\ retry.attempt_number = 3
       /\ \A i \in 1..3 : ~retry.outcomes[i].ok
       /\ retry.error.type = retry.outcomes[3].type
  /\ (Len(retry.outcomes) = 3 /\ ~retry.outcomes[3].ok) =>
       retry.status = "raised"

\* the places of the documents of the store
Slots(colls) == UNION {{<<c, i>> : i \in 1..Len(colls[c])} : c \in DOMAIN colls}

\* both sessions missed both tiers and generated a result
BothGenerated ==
  /\ procs # <<>>
  /\ procs[1].key = procs[2].key
  /\ \A p \in Procs :
       /\ procs[p].pc = "done"
       /\ procs[p].source \in FreshSources
       /\ ~procs[p].gen_failed

\* C15 (as claimed): when two sessions concurrently miss for one key and
\* both generate, the store afterwards holds both results as separate
\* documents.
C15_ConcurrentWritesKept ==
  BothGenerated =>
    \E s1 \in Slots(collections), s2 \in Slots(collections) :
      /\ s1 # s2
      /\ collections[s1[1]][s1[2]].document = PyStr(procs[1].result)
      /\ collections[s2[1]][s2[2]].document = PyStr(procs[2].result)

\* the numbered header lines of a block
HeaderIdx(blk) == {i \in 1..Len(blk) : StartsWithDigit(Strip(blk[i]))}

\* the section key a header line names
HeaderKey(l) == DeriveKey(SplitAll(SplitOnceHead(Strip(l), ":"), ".")[2])

\* the content after the colon of a header line ("" when there is none)
HeaderContent(l) ==
  IF Contains(Strip(l), ":") THEN Join(Strip(SplitOnceTail(Strip(l), ":"))) ELSE ""

\* the bullet lines under the header at h: those after it, up to the next
\* header of the block
BulletsUnder(blk, h) ==
  {i \in (h + 1)..Len(blk) :
     /\ StartsWithDash(Strip(blk[i]))
     /\ \A j \in (h + 1)..(i - 1) : j \notin HeaderIdx(blk)}

\* the sub-key a bullet line names
BulletKey(l) == DeriveKey(SplitOnceHead(LStripChars(Strip(l), {"-", " "}), ":"))

SubKeysUnder(blk, h) == {BulletKey(blk[i]) : i \in BulletsUnder(blk, h)}

\* no later line of the block sets the key again
LastDefiner(blk, h) ==
  \A j \in (h + 1)..Len(blk) :
    /\ j \in HeaderIdx(blk) => HeaderKey(blk[j]) # HeaderKey(blk[h])
    /\ (~StartsWithDash(Strip(blk[j])) /\ j \notin HeaderIdx(blk)
          /\ Contains(Strip(blk[j]), ":"))
         => DeriveKey(SplitOnceHead(Strip(blk[j]), ":")) # HeaderKey(blk[h])

\* C19 (as claimed): in every record parsed from a well-formed response,
\* no two section keys share one mapping, and the mapping under a section
\* key holds exactly the sub-keys of the bullet lines under a header of
\* that section.
C19_SubsectionOwned ==
  (phase = "done" /\ WellFormed(lines)) =>
    \A n \in 1..Len(parser.campaigns) :
      LET rec == parser.campaigns[n]
          blk == Block(lines, n)
          nested == {k \in DOMAIN rec : rec[k].kind = "dict"}
      IN /\ \A k1 \in nested, k2 \in nested :
              k1 # k2 => rec[k1].ref # rec[k2].ref
         /\ \A k \in nested :
              \E h \in HeaderIdx(blk) :
                /\ HeaderKey(blk[h]) = k
                /\ DOMAIN parser.heap[rec[k].ref] = SubKeysUnder(blk, h)

\* C20 (as claimed): in a well-formed response, the content after the colon
\* of a section header is the scalar value of the section in the sealed
\* record, whatever precedes or follows the header in the campaign; a
\* header without content that has bullets under it ends with a mapping of
\* exactly those bullets.
C20_HeaderContentIsScalar ==
  (phase = "done" /\ WellFormed(lines)) =>
    \A n \in 1..Len(parser.campaigns) :
      LET rec == parser.campaigns[n]
          blk == Block(lines, n)
      IN \A h \in HeaderIdx(blk) :
           LastDefiner(blk, h) =>
             LET k == HeaderKey(blk[h])
             IN IF HeaderContent(blk[h]) # ""
                  THEN k \in DOMAIN rec /\ rec[k] = Scalar(HeaderContent(blk[h]))
                  ELSE SubKeysUnder(blk, h) # {} =>
                         /\ k \in DOMAIN rec
                         /\ rec[k].kind = "dict"
                         /\ DOMAIN parser.heap[rec[k].ref] = SubKeysUnder(blk, h)

\* the step reads one more line of the response
ReadStep == phase = "reading" /\ Len(lines') = Len(lines) + 1

FourBranches == {"campaign_start", "section_header", "subsection_line", "key_value"}

\* C21 (as claimed): every non-blank line is handled by exactly one of the
\* four branches, a digit-led line without a period is not handled as a
\* section header, and handling a line never discards the records built
\* from the other lines: the parse goes on and the sealed records stay.
C21_ClassificationTotal ==
  [][ReadStep =>
       LET line == Strip(lines'[Len(lines')])
       IN line # <<>> =>
            /\ LineClass(parser, line) \in FourBranches
            /\ BadHeader(line) => LineClass(parser, line) # "section_header"
            /\ ~parser'.raised
            /\ ParserResult(FinishParser(parser'), num_campaigns) # <<>>
                 \/ ParserResult(FinishParser(parser), num_campaigns) = <<>>
    ]_vars

\* C24: once a record is sealed, no later line changes it: every record of
\* the output sequence keeps its keys, its scalar values and its nested
\* mappings over every step of the parse.
C24_SealedNeverChanges ==
  [][\A i \in 1..Len(parser.campaigns) :
       /\ i <= Len(parser'.campaigns)
       /\ parser'.campaigns[i] = parser.campaigns[i]
       /\ ResolveRecord(parser'.campaigns[i], parser'.heap, parser'.order)
            = ResolveRecord(parser.campaigns[i], parser.heap, parser.order)]_vars

\* a record with a nested mapping was sealed and lines of the next campaign,
\* a key:value line among them, were read after it
C24_Witness ==
  /\ phase = "reading"
  /\ Len(parser.campaigns) = 1
  /\ \E k \in DOMAIN parser.campaigns[1] : parser.campaigns[1][k].kind = "dict"
  /\ "budget" \in DOMAIN parser.current_campaign
  /\ "campaign_name" \in DOMAIN parser.current_campaign

\* C27 (as claimed): every record the parser returns holds the key
\* campaign_name.
C27_EveryRecordNamed ==
  phase = "done" => \A i \in 1..Len(result) : "campaign_name" \in DOMAIN result[i]

\* C25: the prompt derivation does not modify the records it is given.
\* The list handed to _add_prompt_suggestions at line 113 is the list it
\* returns, so the records given are the records of result after the step:
\* no key of a record is added or removed and no value is replaced.
C25_RecordUnchanged ==
  [][(phase = "parsed" /\ phase' = "prompted") =>
       /\ result' = add_prompt_suggestions(result)
       /\ Len(result') = Len(result)
       /\ \A i \in 1..Len(result) :
            /\ DOMAIN result'[i] = DOMAIN result[i]
            /\ \A k \in DOMAIN result[i] : result'[i][k] = result[i][k]]_vars

\* C26: the delays slept between the attempts double until the maximum
\* delay is reached, and no delay exceeds the maximum.
C26_DelaysDouble ==
  \A i \in 1..Len(retry.slept) :
    /\ retry.slept[i] <= WaitMax
    /\ i > 1 => retry.slept[i] = Min(2 * retry.slept[i - 1], WaitMax)

\* C29: two consecutive get_research_data calls of one browser session for
\* different companies (hence different (company, audience) pairs) use
\* different session-cache keys: the later call is not served from the
\* entry of the earlier one and does not replace it.
C29_KeyInjective ==
  [][(/\ CallStep
      /\ last.fn = "research"
      /\ last'.fn = "research"
      /\ last'.epoch = last.epoch
      /\ last'.company # last.company) =>
       /\ last'.key # last.key
       /\ last'.source = "session_cache" => last'.key # last.key
       /\ (last.key \in DOMAIN research_cache /\ last'.key = last.key) =>
            research_cache'[last.key] = research_cache[last.key]]_vars

\* C22: generate_ad_content is never called with a list that holds a record
\* missing one of the required fields campaign_name, core_message or
\* visual_theme_description: the validation of a record precedes every
\* call that generates ad content for it.
C22_ValidatedBeforeAdContent ==
  \A c \in 1..Len(agent_run.ad_content_inputs) :
    \A i \in 1..Len(agent_run.ad_content_inputs[c]) :
      \A f \in RequiredFields :
        ~FieldMissing(agent_run.ad_content_inputs[c][i], f)

\* C30: the ids add_texts returned for different documents are pairwise
\* distinct across the calls of one run.
C30_IdsDistinct ==
  \A i, j \in 1..Len(agent_run.stored) :
    agent_run.stored[i].text # agent_run.stored[j].text =>
      agent_run.stored[i].id # agent_run.stored[j].id

\* the campaigns a list of calls or results names
IndexSet(seq) == {seq[k] : k \in 1..Len(seq)}

\* C23: the image generator is called at most once for a campaign and only
\* after its tagline and story were saved, and a campaign whose tagline and
\* story were saved is reported in the results of the call even when its
\* image generation failed.
C23_TextAssetsReported ==
  /\ \A k \in 1..Len(orch.image_calls) :
       /\ orch.image_calls[k] \in IndexSet(orch.text_assets)
       /\ \A m \in 1..Len(orch.image_calls) :
            orch.image_calls[m] = orch.image_calls[k] => m = k
  /\ orch.status = "returned" =>
       \A i \in IndexSet(orch.text_assets) :
         \E r \in 1..Len(orch.results) : orch.results[r].index = i

\* C28: once the loop over the campaigns is entered the call never raises:
\* it returns, every campaign was processed, and results holds the
\* campaigns that completed in input order.
C28_LoopNeverAborts ==
  /\ orch.i >= 1 => orch.status # "raised"
  /\ orch.status = "returned" =>
       /\ orch.i = Len(orch.campaigns) + 1
       /\ \A r \in 1..Len(orch.results) :
            /\ orch.results[r].index \in IndexSet(orch.image_calls)
            /\ \A q \in 1..Len(orch.results) :
                 q < r => orch.results[q].index < orch.results[r].index


====
